---- MODULE Spec2Model ----
(***************************************************************************)
(* Shared State API (app/database.py): one SQLite file holding the table   *)
(* shared_state (the current counter and message) and the table            *)
(* update_logs (one audit row per update), used by several callers         *)
(* (worker processes or threads), each through its own connection.         *)
(*                                                                         *)
(* Every function of database.py is modelled statement by statement: the   *)
(* sqlite3 module runs a SELECT or a CREATE TABLE in autocommit mode and   *)
(* opens a transaction implicitly before the first INSERT or UPDATE, which *)
(* takes the database's single write lock until commit() or until the      *)
(* connection is closed.  What a connection has written and not committed  *)
(* is visible to that connection only.                                     *)
(***************************************************************************)
EXTENDS Integers, Sequences, FiniteSets, TLC

\* ------------------------------------------------------------------ bounds
MaxLogs == 2         \* update_state calls that may commit
MaxTime == 1         \* seconds the clock may advance
MaxRows == 15        \* log rows of the stores get_logs is applied to
MaxPage == 3         \* largest page number asked for
MaxStateRows == 2    \* state rows of the stores get_current_state is applied to

\* The worker processes sharing the database file, each with its own
\* connections: two, the least number that can race.
Procs == {1, 2}

\* An Optional[...] argument: None is the empty sequence, a value v is <<v>>.
None == <<>>
Some(v) == <<v>>

\* The update requests the callers send: both fields, the counter only, the
\* message only.
Requests ==
    { [counter |-> Some(5), message |-> Some("hi")],
      [counter |-> Some(9), message |-> None],
      [counter |-> None,    message |-> Some("x")] }

\* def get_logs(page: int = 1, limit: int = 10)
DefaultPage == 1
DefaultLimit == 10

\* The page sizes asked for, from the least to the largest the endpoint
\* lets through (limit: Query(10, ge=1, le=100)).
Limits == {1, 5, 10, 100}

NoArgs == [counter |-> None, message |-> None]
NoOld == [counter |-> 0, message |-> ""]
NoQuery == [page |-> 0, limit |-> 0, total |-> 0]

VARIABLES
    tables,        \* the tables that exist in the database file
    shared_state,  \* committed rows of shared_state, in id order
    update_logs,   \* committed rows of update_logs, in id order
    writer,        \* who holds the write lock: 0 nobody, p an open connection of
                   \* p, Dropped(p) a connection p dropped without closing it
    now,           \* CURRENT_TIMESTAMP, in seconds
    pc,            \* pc[p]: the statement caller p executes next
    args,          \* args[p]: the (counter, message) arguments of p's update_state
    old,           \* old[p]: the (old_counter, old_message) p's update_state read
    view,          \* view[p]: the tables as p's open transaction sees them
    ret,           \* what the call that ended last returned, or that it raised
    hist,          \* the arguments of the committed update_state calls, in commit order
    query          \* query[p]: page, limit and the total counted by p's get_logs

vars == <<tables, shared_state, update_logs, writer, now, pc, args, old,
          view, ret, hist, query>>

\* ------------------------------------------------------------- the tables
StateRow(id, counter, message, updated_at) ==
    [id |-> id, counter |-> counter, message |-> message, updated_at |-> updated_at]

LogRow(id, timestamp, old_counter, new_counter, old_message, new_message, update_type) ==
    [id |-> id, timestamp |-> timestamp,
     old_counter |-> old_counter, new_counter |-> new_counter,
     old_message |-> old_message, new_message |-> new_message,
     update_type |-> update_type]

\* AUTOINCREMENT: one more than the largest id the table ever held (rows are
\* kept in id order and never deleted).
NextId(rows) == IF rows = <<>> THEN 1 ELSE rows[Len(rows)].id + 1

\* SELECT * FROM shared_state ORDER BY id DESC LIMIT 1, then fetchone():
\* None when the table is empty.
LatestRow(rows) == IF rows = <<>> THEN None ELSE Some(rows[Len(rows)])

\* view[p] when p has no transaction open.
NoView == <<>>

\* ---------------------------------------------------------- pure functions
\* current["counter"] if current else 0, current["message"] if current else ""
OldState(current) ==
    IF current = None
    THEN [counter |-> 0, message |-> ""]
    ELSE [counter |-> current[1].counter, message |-> current[1].message]

\* counter if counter is not None else old_counter
Coalesce(requested, oldValue) ==
    IF requested # None THEN requested[1] ELSE oldValue

RECURSIVE Join(_, _)
\* sep.join(names)
Join(sep, names) ==
    IF names = <<>> THEN ""
    ELSE IF Len(names) = 1 THEN names[1]
    ELSE names[1] \o sep \o Join(sep, Tail(names))

\* (Variant: "message" is tested and appended before "counter".)
UpdateTypeListMessageFirst(counter, message) ==
    (IF message # None THEN <<"message">> ELSE <<>>)
        \o (IF counter # None THEN <<"counter">> ELSE <<>>)

\* (Variant: a call that names no field is labelled as naming both.)
UpdateTypeListOrBoth(counter, message) ==
    IF counter = None /\ message = None THEN <<"counter", "message">>
    ELSE (IF counter # None THEN <<"counter">> ELSE <<>>)
             \o (IF message # None THEN <<"message">> ELSE <<>>)

\* The update_type list: "counter" is appended before "message".
UpdateTypeList(counter, message) ==
    (IF counter # None THEN <<"counter">> ELSE <<>>)
        \o (IF message # None THEN <<"message">> ELSE <<>>)

UpdateType(counter, message) == Join(", ", UpdateTypeList(counter, message))

\* (Variant: every update inserts a new state row instead of overwriting.)
UpdateLatestInsert(rows, counter, message, t) ==
    Append(rows, StateRow(NextId(rows), counter, message, t))

\* (Variant: an upsert, which inserts the first state row into an empty table.)
UpdateLatestUpsert(rows, counter, message, t) ==
    IF rows = <<>> THEN <<StateRow(1, counter, message, t)>>
    ELSE [rows EXCEPT ![Len(rows)] = StateRow(rows[Len(rows)].id, counter, message, t)]

\* UPDATE shared_state SET counter = ?, message = ?, updated_at = CURRENT_TIMESTAMP
\* WHERE id = (SELECT id FROM shared_state ORDER BY id DESC LIMIT 1):
\* the row with the highest id is overwritten; no row matches an empty table.
UpdateLatest(rows, counter, message, t) ==
    IF rows = <<>> THEN rows
    ELSE [rows EXCEPT ![Len(rows)] = StateRow(rows[Len(rows)].id, counter, message, t)]

\* (Variant: ORDER BY id ASC, the row inserted first.)
CurrentStateOldest(rows) ==
    IF rows # <<>>
    THEN [counter |-> rows[1].counter, message |-> rows[1].message]
    ELSE [counter |-> 0, message |-> ""]

\* get_current_state's return value on the given committed rows.
CurrentState(rows) ==
    IF LatestRow(rows) # None
    THEN [counter |-> LatestRow(rows)[1].counter, message |-> LatestRow(rows)[1].message]
    ELSE [counter |-> 0, message |-> ""]

\* ------------------------------------------------------------ return values
NoResult == [op |-> "none", ok |-> TRUE, val |-> <<>>]
Returned(op, val) == [op |-> op, ok |-> TRUE, val |-> <<val>>]
Raised(op) == [op |-> op, ok |-> FALSE, val |-> <<>>]

\* ------------------------------------------------------------------- Init
\* A new database file: no table yet; no process has started.
Init ==
    /\ tables = {}
    /\ shared_state = <<>>
    /\ update_logs = <<>>
    /\ writer = 0
    /\ now = 0
    /\ pc = [p \in Procs |-> "boot"]
    /\ args = [p \in Procs |-> NoArgs]
    /\ old = [p \in Procs |-> NoOld]
    /\ view = [p \in Procs |-> NoView]
    /\ ret = NoResult
    /\ hist = <<>>
    /\ query = [p \in Procs |-> NoQuery]

\* ------------------------------------------------------------ transactions
\* (Variant: the connection is in autocommit mode, isolation_level=None, and
\* every statement that writes is committed as it runs.)
WriteTablesAutocommit(p, t) ==
    /\ view' = [view EXCEPT ![p] = t]
    /\ shared_state' = t.state
    /\ update_logs' = t.logs

\* A statement that writes: the sqlite3 module has opened a transaction
\* before it (get_connection keeps the default isolation level), so the
\* tables t it produces stay private to the connection until commit().
WriteTables(p, t) ==
    /\ view' = [view EXCEPT ![p] = t]
    /\ UNCHANGED <<shared_state, update_logs>>

\* (Variant: the state row is written on a second connection that is never
\* committed; commit() publishes the log rows only.)
CommitTablesLogsOnly(p) ==
    /\ shared_state' = shared_state
    /\ update_logs' = IF view[p] = NoView THEN update_logs ELSE view[p].logs
    /\ view' = [view EXCEPT ![p] = NoView]
    /\ writer' = IF writer = p THEN 0 ELSE writer

\* conn.commit(): the transaction's tables become the committed ones and the
\* write lock is released; without an open transaction it does nothing.
CommitTables(p) ==
    /\ shared_state' = IF view[p] = NoView THEN shared_state ELSE view[p].state
    /\ update_logs' = IF view[p] = NoView THEN update_logs ELSE view[p].logs
    /\ view' = [view EXCEPT ![p] = NoView]
    /\ writer' = IF writer = p THEN 0 ELSE writer

\* An exception unwinds the function before conn.close(): the connection
\* object is dropped with its transaction open.  What it wrote can no longer
\* be committed; its write lock stays until the object is finalized.
Dropped(p) == 0 - p

DropConnection(p) ==
    /\ view' = [view EXCEPT ![p] = NoView]
    /\ writer' = IF writer = p THEN Dropped(p) ELSE writer
    /\ UNCHANGED <<shared_state, update_logs>>

\* update_state calls that hold a place among the MaxLogs commits.
InFlight == {q \in Procs : pc[q] \in {"u_update", "u_insert", "u_commit"}}

\* ---------------------------------------------------------------- init_db
\* The process starts: lifespan() calls init_db() before any request is
\* served.  CREATE TABLE IF NOT EXISTS shared_state (autocommit; creating the
\* table needs the write lock).
InitCreateState(p) ==
    /\ pc[p] = "boot"
    /\ "shared_state" \in tables \/ writer = 0
    /\ tables' = tables \cup {"shared_state"}
    /\ pc' = [pc EXCEPT ![p] = "i_create_logs"]
    /\ UNCHANGED <<shared_state, update_logs, writer, now, args, old, view, ret, hist, query>>

\* CREATE TABLE IF NOT EXISTS update_logs
InitCreateLogs(p) ==
    /\ pc[p] = "i_create_logs"
    /\ "update_logs" \in tables \/ writer = 0
    /\ tables' = tables \cup {"update_logs"}
    /\ pc' = [pc EXCEPT ![p] = "i_count"]
    /\ UNCHANGED <<shared_state, update_logs, writer, now, args, old, view, ret, hist, query>>

\* (Variants: the test inverted; the row inserted without a test.)
StateIsEmptyInverted(count) == count # 0

StateIsEmptyAlways(count) == TRUE

\* if cursor.fetchone()[0] == 0
StateIsEmpty(count) == count = 0

\* SELECT COUNT(*) FROM shared_state, and the test of the result.
InitCount(p) ==
    /\ pc[p] = "i_count"
    /\ pc' = [pc EXCEPT ![p] = IF StateIsEmpty(Len(shared_state))
                                THEN "i_insert" ELSE "i_commit"]
    /\ UNCHANGED <<tables, shared_state, update_logs, writer, now, args, old, view, ret, hist, query>>

\* INSERT INTO shared_state (counter, message) VALUES (0, ''): opens a
\* transaction and takes the write lock; id and updated_at take their defaults.
InitInsert(p) ==
    /\ pc[p] = "i_insert"
    /\ writer = 0
    /\ writer' = p
    /\ WriteTables(p, [state |-> Append(shared_state,
                                        StateRow(NextId(shared_state), 0, "", now)),
                       logs |-> update_logs])
    /\ pc' = [pc EXCEPT ![p] = "i_commit"]
    /\ UNCHANGED <<tables, now, args, old, ret, hist, query>>

\* conn.commit(); conn.close()
InitCommit(p) ==
    /\ pc[p] = "i_commit"
    /\ CommitTables(p)
    /\ pc' = [pc EXCEPT ![p] = "idle"]
    /\ ret' = Returned("init_db", <<>>)
    /\ UNCHANGED <<tables, now, args, old, hist, query>>

\* ----------------------------------------------------- get_current_state
\* (Variant: the read stamps the row it returns, SET updated_at =
\* CURRENT_TIMESTAMP, and commits.)
GetCurrentStateTouching(p) ==
    /\ pc[p] = "idle"
    /\ writer = 0
    /\ ret' = Returned("get_current_state", CurrentState(shared_state))
    /\ shared_state' = IF shared_state = <<>> THEN shared_state
                       ELSE [shared_state EXCEPT ![Len(shared_state)].updated_at = now]
    /\ UNCHANGED <<tables, update_logs, writer, now, pc, args, old, view, hist, query>>

GetCurrentState(p) ==
    /\ pc[p] = "idle"
    /\ ret' = Returned("get_current_state", CurrentState(shared_state))
    /\ UNCHANGED <<tables, shared_state, update_logs, writer, now, pc, args, old, view, hist, query>>

\* ---------------------------------------------------------------- get_logs
\* (Variant: pages counted from 0.)
OffsetFromZero(page, limit) == page * limit

\* offset = (page - 1) * limit
Offset(page, limit) == (page - 1) * limit

\* (Variant: the integer division alone, without the case of an empty log.)
total_pages_plain(total, limit) == (total + limit - 1) \div limit

\* total_pages = (total + limit - 1) // limit if total > 0 else 1
total_pages(total, limit) ==
    IF total > 0 THEN (total + limit - 1) \div limit ELSE 1

RECURSIVE OrderByTimestampDesc(_)
\* ORDER BY timestamp DESC over a scan of the table: the rows of the latest
\* second first.  The statement names no second key; SQLite's sorter returns
\* rows of one second in the order of the scan, which is the order of their
\* ids (measured on every table of up to 8 rows and every LIMIT and OFFSET).
OrderByTimestampDesc(rows) ==
    IF rows = <<>> THEN <<>>
    ELSE LET latest == CHOOSE t \in {rows[i].timestamp : i \in 1..Len(rows)} :
                           \A i \in 1..Len(rows) : rows[i].timestamp <= t
         IN SelectSeq(rows, LAMBDA r : r.timestamp = latest)
                \o OrderByTimestampDesc(SelectSeq(rows, LAMBDA r : r.timestamp # latest))

\* (Variant: LIMIT ? + 1, one row more than asked for.)
LimitOffsetOneMore(rows, limit, offset) ==
    SubSeq(rows, offset + 1, IF offset + limit + 1 < Len(rows)
                             THEN offset + limit + 1 ELSE Len(rows))

\* LIMIT ? OFFSET ?: at most limit rows, after the first offset rows.
LimitOffset(rows, limit, offset) ==
    SubSeq(rows, offset + 1, IF offset + limit < Len(rows)
                             THEN offset + limit ELSE Len(rows))

\* SELECT * FROM update_logs ORDER BY timestamp DESC LIMIT ? OFFSET ?
SelectLogs(rows, limit, offset) ==
    LimitOffset(OrderByTimestampDesc(rows), limit, offset)

\* get_connection() and SELECT COUNT(*) FROM update_logs (autocommit: the
\* read ends with the statement).
GetLogsCount(p, page, limit) ==
    /\ pc[p] = "idle"
    /\ "update_logs" \in tables
    /\ query' = [query EXCEPT ![p] = [page |-> page, limit |-> limit,
                                      total |-> Len(update_logs)]]
    /\ pc' = [pc EXCEPT ![p] = "l_select"]
    /\ UNCHANGED <<tables, shared_state, update_logs, writer, now, args, old, view, ret, hist>>

\* The SELECT of the page (a second read, of the table as committed by now),
\* conn.close() and the returned dict.
GetLogsSelect(p) ==
    /\ pc[p] = "l_select"
    /\ ret' = Returned("get_logs",
                [logs |-> SelectLogs(update_logs, query[p].limit,
                                     Offset(query[p].page, query[p].limit)),
                 page |-> query[p].page,
                 limit |-> query[p].limit,
                 total |-> query[p].total,
                 total_pages |-> total_pages(query[p].total, query[p].limit)])
    /\ pc' = [pc EXCEPT ![p] = "idle"]
    /\ query' = [query EXCEPT ![p] = NoQuery]
    /\ UNCHANGED <<tables, shared_state, update_logs, writer, now, args, old, view, hist>>

\* ----------------------------------------------------------- update_state
\* get_connection() and the SELECT of the current state (autocommit: no
\* transaction is open after it), then the old and new values.
UpdateSelect(p, counter, message) ==
    /\ pc[p] = "idle"
    /\ Len(update_logs) + Cardinality(InFlight) < MaxLogs
    /\ args' = [args EXCEPT ![p] = [counter |-> counter, message |-> message]]
    /\ old' = [old EXCEPT ![p] = OldState(LatestRow(shared_state))]
    /\ pc' = [pc EXCEPT ![p] = "u_update"]
    /\ UNCHANGED <<tables, shared_state, update_logs, writer, now, view, ret, hist, query>>

\* (Variants: a full-object replace, in which an absent field falls back to
\* the column's default instead of the value read.)
new_counter_replace(p) == IF args[p].counter # None THEN args[p].counter[1] ELSE 0

new_message_replace(p) == IF args[p].message # None THEN args[p].message[1] ELSE ""

\* (Variant: the test is by truth value, new_counter = counter or old_counter.)
new_counter_truthy(p) ==
    IF args[p].counter # None /\ args[p].counter[1] # 0
    THEN args[p].counter[1] ELSE old[p].counter

\* new_counter = counter if counter is not None else old_counter
new_counter(p) == Coalesce(args[p].counter, old[p].counter)

\* new_message = message if message is not None else old_message
new_message(p) == Coalesce(args[p].message, old[p].message)

\* (Variant: an update that changes no value is not logged.)
AppendLogIfChanged(logs, p) ==
    IF new_counter(p) = old[p].counter /\ new_message(p) = old[p].message
    THEN logs
    ELSE Append(logs, LogRow(NextId(logs), now,
                             old[p].counter, new_counter(p),
                             old[p].message, new_message(p),
                             UpdateType(args[p].counter, args[p].message)))

\* (Variant: the log keeps the last update only, INSERT OR REPLACE on one row.)
AppendLogReplacing(logs, p) ==
    <<LogRow(NextId(logs), now,
             old[p].counter, new_counter(p),
             old[p].message, new_message(p),
             UpdateType(args[p].counter, args[p].message))>>

\* The row the INSERT INTO update_logs statement adds to the table.
AppendLog(logs, p) ==
    Append(logs, LogRow(NextId(logs), now,
                        old[p].counter, new_counter(p),
                        old[p].message, new_message(p),
                        UpdateType(args[p].counter, args[p].message)))

\* (Variant: a rollback journal with readers that keep their read transaction
\* open between the two SELECTs of get_logs: the UPDATE also waits while a
\* caller is inside get_logs.)
UpdateRowAfterReaders(p) ==
    /\ pc[p] = "u_update"
    /\ writer = 0
    /\ \A q \in Procs : pc[q] # "l_select"
    /\ writer' = p
    /\ view' = [view EXCEPT ![p] =
                   [state |-> IF shared_state = <<>> THEN shared_state
                              ELSE [shared_state EXCEPT ![Len(shared_state)] =
                                       [id |-> shared_state[Len(shared_state)].id,
                                        counter |-> IF args[p].counter # None
                                                    THEN args[p].counter[1] ELSE old[p].counter,
                                        message |-> IF args[p].message # None
                                                    THEN args[p].message[1] ELSE old[p].message,
                                        updated_at |-> now]],
                    logs |-> update_logs]]
    /\ pc' = [pc EXCEPT ![p] = "u_insert"]
    /\ UNCHANGED <<tables, shared_state, update_logs, now, args, old, ret, hist, query>>

\* The UPDATE statement: opens the transaction, waits for the write lock.
UpdateRow(p) ==
    /\ pc[p] = "u_update"
    /\ writer = 0
    /\ writer' = p
    /\ WriteTables(p, [state |-> UpdateLatest(shared_state, new_counter(p),
                                              new_message(p), now),
                       logs |-> update_logs])
    /\ pc' = [pc EXCEPT ![p] = "u_insert"]
    /\ UNCHANGED <<tables, now, args, old, ret, hist, query>>

\* The INSERT INTO update_logs statement, in the open transaction.
InsertLog(p) ==
    /\ pc[p] = "u_insert"
    /\ WriteTables(p, [view[p] EXCEPT !.logs = AppendLog(@, p)])
    /\ pc' = [pc EXCEPT ![p] = "u_commit"]
    /\ UNCHANGED <<tables, writer, now, args, old, ret, hist, query>>

\* conn.commit(); conn.close(); return {...}
UpdateCommit(p) ==
    /\ pc[p] = "u_commit"
    /\ CommitTables(p)
    /\ hist' = Append(hist, args[p])
    /\ pc' = [pc EXCEPT ![p] = "idle"]
    /\ ret' = Returned("update_state",
                 [old_counter |-> old[p].counter, new_counter |-> new_counter(p),
                  old_message |-> old[p].message, new_message |-> new_message(p)])
    /\ args' = [args EXCEPT ![p] = NoArgs]
    /\ old' = [old EXCEPT ![p] = NoOld]
    /\ UNCHANGED <<tables, now, query>>

\* The storage fails under a statement of update_state or under commit():
\* the statement has no effect and raises sqlite3.Error.
StorageFailure(p) ==
    /\ pc[p] \in {"u_update", "u_insert", "u_commit"}
    /\ pc' = [pc EXCEPT ![p] = "u_raise"]
    /\ UNCHANGED <<tables, shared_state, update_logs, writer, now, args, old, view, ret, hist, query>>

\* sqlite3.connect(..., timeout=10): a statement that has waited that long
\* for another connection's write lock raises "database is locked".
LockTimeout(p) ==
    /\ pc[p] \in {"u_update", "i_insert"}
    /\ writer # 0
    /\ pc' = [pc EXCEPT ![p] = IF pc[p] = "u_update" THEN "u_raise" ELSE "i_raise"]
    /\ UNCHANGED <<tables, shared_state, update_logs, writer, now, args, old, view, ret, hist, query>>

\* The exception leaves update_state: nothing catches it there, the caller
\* gets it, and the connection is closed uncommitted.
UpdateRaise(p) ==
    /\ pc[p] = "u_raise"
    /\ DropConnection(p)
    /\ pc' = [pc EXCEPT ![p] = "idle"]
    /\ ret' = Raised("update_state")
    /\ args' = [args EXCEPT ![p] = NoArgs]
    /\ old' = [old EXCEPT ![p] = NoOld]
    /\ UNCHANGED <<tables, now, hist, query>>

\* The exception leaves init_db and lifespan(): the process does not start.
InitRaise(p) ==
    /\ pc[p] = "i_raise"
    /\ DropConnection(p)
    /\ pc' = [pc EXCEPT ![p] = "exited"]
    /\ ret' = Raised("init_db")
    /\ UNCHANGED <<tables, now, args, old, hist, query>>

\* (Variant: the dropped connection stays referenced, from a module-level
\* list say, and is never finalized.)
CloseDroppedKept(p) ==
    /\ writer = Dropped(p)
    /\ UNCHANGED <<tables, shared_state, update_logs, writer, now, pc, args, old, view,
                   ret, hist, query>>

\* The interpreter finalizes a dropped connection (at once where reference
\* counting frees it, at the next collection where it sits in a cycle):
\* sqlite3_close rolls its transaction back and releases the write lock.
CloseDropped(p) ==
    /\ writer = Dropped(p)
    /\ writer' = 0
    /\ UNCHANGED <<tables, shared_state, update_logs, now, pc, args, old, view, ret, hist, query>>

\* One second passes.
Tick ==
    /\ now < MaxTime
    /\ now' = now + 1
    /\ UNCHANGED <<tables, shared_state, update_logs, writer, pc, args, old, view, ret, hist, query>>

Next ==
    \/ \E p \in Procs : InitCreateState(p)
    \/ \E p \in Procs : InitCreateLogs(p)
    \/ \E p \in Procs : InitCount(p)
    \/ \E p \in Procs : InitInsert(p)
    \/ \E p \in Procs : InitCommit(p)
    \/ \E p \in Procs : InitRaise(p)
    \/ \E p \in Procs : GetCurrentState(p)
    \/ \E p \in Procs : \E r \in Requests : UpdateSelect(p, r.counter, r.message)
    \/ \E p \in Procs : UpdateRow(p)
    \/ \E p \in Procs : InsertLog(p)
    \/ \E p \in Procs : UpdateCommit(p)
    \/ \E p \in Procs : StorageFailure(p)
    \/ \E p \in Procs : LockTimeout(p)
    \/ \E p \in Procs : UpdateRaise(p)
    \/ \E p \in Procs : CloseDropped(p)
    \/ Tick

Spec == Init /\ [][Next]_vars

\* The processes start one after the other: a process runs its init_db only
\* while no other process is inside init_db.  Requests are served, and race,
\* as in Spec.  (InitInsert then always finds the write lock free or the table
\* populated, so init_db does not raise.)
InInitDb(q) == pc[q] \in {"i_create_logs", "i_count", "i_insert", "i_commit", "i_raise"}

InitCreateStateAlone(p) ==
    /\ \A q \in Procs : ~InInitDb(q)
    /\ InitCreateState(p)

NextSeqInit ==
    \/ \E p \in Procs : InitCreateStateAlone(p)
    \/ \E p \in Procs : InitCreateLogs(p)
    \/ \E p \in Procs : InitCount(p)
    \/ \E p \in Procs : InitInsert(p)
    \/ \E p \in Procs : InitCommit(p)
    \/ \E p \in Procs : GetCurrentState(p)
    \/ \E p \in Procs : \E r \in Requests : UpdateSelect(p, r.counter, r.message)
    \/ \E p \in Procs : UpdateRow(p)
    \/ \E p \in Procs : InsertLog(p)
    \/ \E p \in Procs : UpdateCommit(p)
    \/ \E p \in Procs : StorageFailure(p)
    \/ \E p \in Procs : LockTimeout(p)
    \/ \E p \in Procs : UpdateRaise(p)
    \/ \E p \in Procs : CloseDropped(p)
    \/ Tick

SpecSeqInit == Init /\ [][NextSeqInit]_vars

\* ------------------------------------------------------------ POST /update
\* settings.API_KEY, when the environment sets none.
API_KEY == "your-secret-api-key-12345"

\* The X-API-Key headers the clients send: none, the key, the key with a
\* space on either side, another key.
Keys == {None, Some(API_KEY), Some(" " \o API_KEY \o " "), Some("wrong-key")}

\* The JSON bodies the clients send: those of Requests, and one with neither
\* field (an empty object, or both fields null).
Bodies == Requests \cup {NoArgs}

\* (Variant: the header is stripped before it is compared.)
verify_api_key_stripped(x_api_key) ==
    x_api_key \in {API_KEY, " " \o API_KEY \o " "}

\* if x_api_key != settings.API_KEY: raise HTTPException(401); TRUE when the
\* dependency returns.
verify_api_key(x_api_key) == x_api_key = API_KEY

\* (Variant: UpdateRequest without the model validator.)
validate_nothing(request) == TRUE

\* if self.counter is None and self.message is None: raise ValueError; TRUE
\* when the validator returns.
validate_at_least_one_field(request) ==
    ~(request.counter = None /\ request.message = None)

\* The response of a request that did not reach the handler's body.
Rejected(status, detail) ==
    [op |-> "POST /update", ok |-> FALSE, val |-> <<[status |-> status, detail |-> detail]>>]

\* What FastAPI answers before update_state_endpoint's body runs: the header
\* is required (Header(...)), the dependency verify_api_key runs next, then
\* the body is validated as an UpdateRequest.  None when all three pass.
Rejection(key, body) ==
    IF key = None THEN Some(Rejected(422, "Field required"))
    ELSE IF ~verify_api_key(key[1]) THEN Some(Rejected(401, "Invalid API Key"))
    ELSE IF ~validate_at_least_one_field(body)
      THEN Some(Rejected(422, "At least one of counter or message must be provided"))
    ELSE None

\* update_state_endpoint: a request that is rejected gets its response and
\* nothing else happens; one that passes calls update_state(counter=
\* request.counter, message=request.message).
UpdateEndpoint(p, key, body) ==
    IF Rejection(key, body) # None
    THEN /\ pc[p] = "idle"
         /\ ret' = Rejection(key, body)[1]
         /\ UNCHANGED <<tables, shared_state, update_logs, writer, now, pc, args, old,
                        view, hist, query>>
    ELSE UpdateSelect(p, body.counter, body.message)

\* The processes serve POST /update and GET /status behind the boundary;
\* they start one after the other as in SpecSeqInit.  The storage does not
\* fail, no caller waits for the write lock longer than the timeout, and the
\* requests come within one second.
NextApi ==
    \/ \E p \in Procs : InitCreateStateAlone(p)
    \/ \E p \in Procs : InitCreateLogs(p)
    \/ \E p \in Procs : InitCount(p)
    \/ \E p \in Procs : InitInsert(p)
    \/ \E p \in Procs : InitCommit(p)
    \/ \E p \in Procs : GetCurrentState(p)
    \/ \E p \in Procs : \E key \in Keys : \E body \in Bodies : UpdateEndpoint(p, key, body)
    \/ \E p \in Procs : UpdateRow(p)
    \/ \E p \in Procs : InsertLog(p)
    \/ \E p \in Procs : UpdateCommit(p)

SpecApi == Init /\ [][NextApi]_vars

\* ------------------------------------------------ get_logs on a quiet store
\* The stores get_logs is applied to, as the pagination tests build them: a
\* process has run init_db and then update_state(counter=i) for i = 0..n-1,
\* one call after the other, while the clock advanced; the i-th call ran in
\* the second Stamp(cut, i), cut[t] being the number of calls made before the
\* t-th second began.
Stamp(cut, i) == Cardinality({t \in 1..MaxTime : cut[t] < i})

SequentialLog(n, cut) ==
    [i \in 1..n |-> LogRow(i, Stamp(cut, i),
                           IF i = 1 THEN 0 ELSE i - 2, i - 1, "", "", "counter")]

InitPages ==
    \E n \in 0..MaxRows : \E cut \in [1..MaxTime -> 0..n] :
        /\ tables = {"shared_state", "update_logs"}
        /\ shared_state = <<StateRow(1, IF n = 0 THEN 0 ELSE n - 1, "", Stamp(cut, n))>>
        /\ update_logs = SequentialLog(n, cut)
        /\ writer = 0
        /\ now = MaxTime
        /\ pc = [p \in Procs |-> IF p = 1 THEN "idle" ELSE "boot"]
        /\ args = [p \in Procs |-> NoArgs]
        /\ old = [p \in Procs |-> NoOld]
        /\ view = [p \in Procs |-> NoView]
        /\ ret = NoResult
        /\ hist = [i \in 1..n |-> [counter |-> Some(i - 1), message |-> None]]
        /\ query = [p \in Procs |-> NoQuery]

\* Only get_logs is called, with every page and limit, and no update runs.
NextPages ==
    \/ \E p \in Procs : \E page \in 1..MaxPage : \E limit \in Limits :
           GetLogsCount(p, page, limit)
    \/ \E p \in Procs : GetLogsSelect(p)

SpecPages == InitPages /\ [][NextPages]_vars

\* ------------------------------------- get_current_state on any state table
\* database.get_current_state called, as the unit tests call it, by a caller
\* that did not run init_db itself, on a store whose tables exist: the state
\* table holds no row yet (another process is between init_db's CREATE TABLE
\* and its INSERT), one row, or the rows concurrent init_db calls inserted,
\* with any of the values the requests write.
StateTables ==
    UNION {[1..n -> {0, 5, 9} \X {"", "hi", "x"}] : n \in 0..MaxStateRows}

InitAnyState ==
    \E t \in StateTables :
        /\ tables = {"shared_state", "update_logs"}
        /\ shared_state = [i \in 1..Len(t) |-> StateRow(i, t[i][1], t[i][2], 0)]
        /\ update_logs = <<>>
        /\ writer = 0
        /\ now = 0
        /\ pc = [p \in Procs |-> "idle"]
        /\ args = [p \in Procs |-> NoArgs]
        /\ old = [p \in Procs |-> NoOld]
        /\ view = [p \in Procs |-> NoView]
        /\ ret = NoResult
        /\ hist = <<>>
        /\ query = [p \in Procs |-> NoQuery]

NextAnyState == \E p \in Procs : GetCurrentState(p)

SpecAnyState == InitAnyState /\ [][NextAnyState]_vars

\* ------------------------------------------------ reads racing with updates
\* As SpecSeqInit, and the callers also call get_logs(), with its default
\* arguments, while updates run.
NextReads ==
    \/ NextSeqInit
    \/ \E p \in Procs : GetLogsCount(p, DefaultPage, DefaultLimit)
    \/ \E p \in Procs : GetLogsSelect(p)

SpecReads == Init /\ [][NextReads]_vars

\* ------------------------------------------- a writer among running readers
\* The journal is a write-ahead log (PRAGMA journal_mode=WAL in init_db): a
\* read takes no lock a writer waits for.  The callers update and read, with
\* get_current_state and get_logs(), as often as they like; the storage does
\* not fail and a wait for the write lock ends before the timeout.  A
\* statement of update_state that can run does run (the caller's thread is
\* scheduled and SQLite retries a busy statement); nothing is assumed of the
\* reads.
NextReaders ==
    \/ \E p \in Procs : InitCreateStateAlone(p)
    \/ \E p \in Procs : InitCreateLogs(p)
    \/ \E p \in Procs : InitCount(p)
    \/ \E p \in Procs : InitInsert(p)
    \/ \E p \in Procs : InitCommit(p)
    \/ \E p \in Procs : GetCurrentState(p)
    \/ \E p \in Procs : GetLogsCount(p, DefaultPage, DefaultLimit)
    \/ \E p \in Procs : GetLogsSelect(p)
    \/ \E p \in Procs : \E r \in Requests : UpdateSelect(p, r.counter, r.message)
    \/ \E p \in Procs : UpdateRow(p)
    \/ \E p \in Procs : InsertLog(p)
    \/ \E p \in Procs : UpdateCommit(p)

FairUpdates ==
    \A p \in Procs :
        /\ WF_vars(UpdateRow(p))
        /\ WF_vars(InsertLog(p))
        /\ WF_vars(UpdateCommit(p))

SpecReaders == Init /\ [][NextReaders]_vars /\ FairUpdates

\* ---------------------------------------------------------------- GET /logs
\* page: int = Query(1, ge=1); limit: int = Query(10, ge=1, le=100)
QueryPageDefault == 1
QueryPageMin == 1
QueryLimitDefault == 10
QueryLimitMin == 1
QueryLimitMax == 100

\* The page and limit parameters the clients send, None when the query
\* string has none: the values the tests send, and the bounds.
PageParams == {None, Some(0 - 1), Some(0), Some(1), Some(2)}

LimitParams == {None, Some(0), Some(1), Some(5), Some(100), Some(101), Some(200)}

\* The value of a query parameter: the default when it is omitted.
QueryValue(param, default) == IF param = None THEN default ELSE param[1]

ValidPage(page) == page >= QueryPageMin

\* (Variant: the limit has no upper bound, Query(10, ge=1).)
ValidLimitUnbounded(limit) == limit >= QueryLimitMin

ValidLimit(limit) == limit >= QueryLimitMin /\ limit <= QueryLimitMax

\* FastAPI's answer to a query parameter out of its bounds.
RejectedQuery ==
    [op |-> "GET /logs", ok |-> FALSE,
     val |-> <<[status |-> 422, detail |-> "Input out of range"]>>]

\* get_logs_endpoint: a request with a parameter out of its bounds gets its
\* response and nothing else happens; otherwise get_logs(page=page,
\* limit=limit) is called with the values sent or the defaults.
LogsEndpoint(p, page, limit) ==
    IF ValidPage(QueryValue(page, QueryPageDefault))
           /\ ValidLimit(QueryValue(limit, QueryLimitDefault))
    THEN GetLogsCount(p, QueryValue(page, QueryPageDefault),
                      QueryValue(limit, QueryLimitDefault))
    ELSE /\ pc[p] = "idle"
         /\ ret' = RejectedQuery
         /\ UNCHANGED <<tables, shared_state, update_logs, writer, now, pc, args, old,
                        view, hist, query>>

\* GET /logs served on the stores of InitPages, no update running.
NextLogsApi ==
    \/ \E p \in Procs : \E page \in PageParams : \E limit \in LimitParams :
           LogsEndpoint(p, page, limit)
    \/ \E p \in Procs : GetLogsSelect(p)

SpecLogsApi == InitPages /\ [][NextLogsApi]_vars

\* --------------------------------------------- update_state called directly
\* A caller of database.py (a script, a unit test) that calls update_state
\* and get_current_state itself, one call after the other, with any
\* arguments: values that are false in Python (0, ""), a negative counter,
\* and no field at all, which the HTTP boundary would reject.
DirectCaller == 1

DirectRequests ==
    { [counter |-> Some(5),     message |-> Some("hi")],
      [counter |-> Some(0),     message |-> Some("")],
      [counter |-> Some(0),     message |-> None],
      [counter |-> None,        message |-> Some("")],
      [counter |-> Some(0 - 1), message |-> None],
      NoArgs }

\* The store the caller finds: a new store another process has initialized,
\* or one whose state table is still empty, the other process being between
\* the CREATE TABLE statements of init_db and its SELECT COUNT(*).
InitDirect ==
    \E empty \in BOOLEAN :
        /\ tables = {"shared_state", "update_logs"}
        /\ shared_state = IF empty THEN <<>> ELSE <<StateRow(1, 0, "", 0)>>
        /\ update_logs = <<>>
        /\ writer = 0
        /\ now = 0
        /\ pc = [p \in Procs |-> IF p = DirectCaller THEN "idle"
                                 ELSE IF empty THEN "i_count" ELSE "idle"]
        /\ args = [p \in Procs |-> NoArgs]
        /\ old = [p \in Procs |-> NoOld]
        /\ view = [p \in Procs |-> NoView]
        /\ ret = NoResult
        /\ hist = <<>>
        /\ query = [p \in Procs |-> NoQuery]

\* Only the direct caller runs.
NextDirect ==
    \/ \E r \in DirectRequests : UpdateSelect(DirectCaller, r.counter, r.message)
    \/ UpdateRow(DirectCaller)
    \/ InsertLog(DirectCaller)
    \/ UpdateCommit(DirectCaller)
    \/ GetCurrentState(DirectCaller)

SpecDirect == InitDirect /\ [][NextDirect]_vars

\* ------------------------------------------------- an update fails midway
\* The storage fails under calls of one caller, at any statement of
\* update_state, as often as it likes; the other caller's calls meet no
\* failure.  A statement that can run does run, an exception that was raised
\* leaves the function, and the interpreter does finalize a connection that
\* was dropped, before a caller waiting for the write lock has waited for the
\* timeout.  An UPDATE that waits for the write lock polls it (SQLite's busy
\* handler, timeout=10) and gets it if it is free again and again.
FaultyCaller == 1

NextFailing ==
    \/ \E p \in Procs : InitCreateStateAlone(p)
    \/ \E p \in Procs : InitCreateLogs(p)
    \/ \E p \in Procs : InitCount(p)
    \/ \E p \in Procs : InitInsert(p)
    \/ \E p \in Procs : InitCommit(p)
    \/ \E p \in Procs : \E r \in Requests : UpdateSelect(p, r.counter, r.message)
    \/ \E p \in Procs : UpdateRow(p)
    \/ \E p \in Procs : InsertLog(p)
    \/ \E p \in Procs : UpdateCommit(p)
    \/ StorageFailure(FaultyCaller)
    \/ \E p \in Procs : UpdateRaise(p)
    \/ \E p \in Procs : CloseDropped(p)

FairFailing ==
    \A p \in Procs :
        /\ SF_vars(UpdateRow(p))
        /\ WF_vars(InsertLog(p))
        /\ WF_vars(UpdateCommit(p))
        /\ WF_vars(UpdateRaise(p))
        /\ WF_vars(CloseDropped(p))

SpecFailing == Init /\ [][NextFailing]_vars /\ FairFailing

\* ----------------------------------------- the single-file application
\* src/app.py holds the same four functions in one file, with its own copy of
\* every statement.  It opens its connections with sqlite3.connect(DB_FILE):
\* the sqlite3 module's default isolation level, as in the package (so
\* WriteTables and CommitTables describe its transactions too), the default
\* timeout instead of timeout=10, and no PRAGMA journal_mode=WAL; the last two
\* only matter to calls that overlap.  The statements below are the ones of
\* src/app.py, each with the position and the locals of the packaged
\* function's statement it is a copy of.

\* current = cursor.fetchone() after SELECT * ... ORDER BY id DESC LIMIT 1
single_fetch_latest(rows) ==
    IF Len(rows) = 0 THEN None ELSE Some(rows[Len(rows)])

\* init_db: CREATE TABLE IF NOT EXISTS shared_state
SingleInitCreateState(p) ==
    /\ pc[p] = "boot"
    /\ "shared_state" \in tables \/ writer = 0
    /\ tables' = tables \cup {"shared_state"}
    /\ pc' = [pc EXCEPT ![p] = "i_create_logs"]
    /\ UNCHANGED <<shared_state, update_logs, writer, now, args, old, view, ret, hist, query>>

\* init_db: CREATE TABLE IF NOT EXISTS update_logs
SingleInitCreateLogs(p) ==
    /\ pc[p] = "i_create_logs"
    /\ "update_logs" \in tables \/ writer = 0
    /\ tables' = tables \cup {"update_logs"}
    /\ pc' = [pc EXCEPT ![p] = "i_count"]
    /\ UNCHANGED <<shared_state, update_logs, writer, now, args, old, view, ret, hist, query>>

\* init_db: SELECT COUNT(*) FROM shared_state; if cursor.fetchone()[0] == 0
SingleInitCount(p) ==
    /\ pc[p] = "i_count"
    /\ pc' = [pc EXCEPT ![p] = IF Len(shared_state) = 0 THEN "i_insert" ELSE "i_commit"]
    /\ UNCHANGED <<tables, shared_state, update_logs, writer, now, args, old, view, ret, hist, query>>

\* init_db: INSERT INTO shared_state (counter, message) VALUES (0, '')
SingleInitInsert(p) ==
    /\ pc[p] = "i_insert"
    /\ writer = 0
    /\ writer' = p
    /\ WriteTables(p, [state |-> shared_state
                                   \o <<StateRow(NextId(shared_state), 0, "", now)>>,
                       logs |-> update_logs])
    /\ pc' = [pc EXCEPT ![p] = "i_commit"]
    /\ UNCHANGED <<tables, now, args, old, ret, hist, query>>

\* init_db: conn.commit(); conn.close()
SingleInitCommit(p) ==
    /\ pc[p] = "i_commit"
    /\ CommitTables(p)
    /\ pc' = [pc EXCEPT ![p] = "idle"]
    /\ ret' = Returned("init_db", <<>>)
    /\ UNCHANGED <<tables, now, args, old, hist, query>>

\* get_current_state: if row: return {"counter": ..., "message": ...};
\* return {"counter": 0, "message": ""}
single_get_current_state(rows) ==
    LET row == single_fetch_latest(rows)
    IN IF row = None THEN [counter |-> 0, message |-> ""]
       ELSE [counter |-> row[1].counter, message |-> row[1].message]

SingleGetCurrentState(p) ==
    /\ pc[p] = "idle"
    /\ ret' = Returned("get_current_state", single_get_current_state(shared_state))
    /\ UNCHANGED <<tables, shared_state, update_logs, writer, now, pc, args, old, view, hist, query>>

\* get_logs: offset = (page - 1) * limit
single_offset(page, limit) == (page - 1) * limit

\* get_logs: total_pages = (total + limit - 1) // limit if total > 0 else 1
single_total_pages(total, limit) ==
    IF total > 0 THEN (total + limit - 1) \div limit ELSE 1

\* get_logs: SELECT * FROM update_logs ORDER BY timestamp DESC LIMIT ? OFFSET ?
\* (the same SQLite runs the statement: its sorter and its LIMIT and OFFSET).
single_select_logs(rows, limit, offset) ==
    LET ordered == OrderByTimestampDesc(rows)
        last == IF offset + limit < Len(ordered) THEN offset + limit ELSE Len(ordered)
    IN [i \in 1..(IF last > offset THEN last - offset ELSE 0) |-> ordered[offset + i]]

\* get_logs: SELECT COUNT(*) FROM update_logs
SingleGetLogsCount(p, page, limit) ==
    /\ pc[p] = "idle"
    /\ "update_logs" \in tables
    /\ query' = [query EXCEPT ![p] = [page |-> page, limit |-> limit,
                                      total |-> Len(update_logs)]]
    /\ pc' = [pc EXCEPT ![p] = "l_select"]
    /\ UNCHANGED <<tables, shared_state, update_logs, writer, now, args, old, view, ret, hist>>

\* get_logs: the SELECT of the page, conn.close() and the returned dict.
SingleGetLogsSelect(p) ==
    /\ pc[p] = "l_select"
    /\ ret' = Returned("get_logs",
                [logs |-> single_select_logs(update_logs, query[p].limit,
                              single_offset(query[p].page, query[p].limit)),
                 page |-> query[p].page,
                 limit |-> query[p].limit,
                 total |-> query[p].total,
                 total_pages |-> single_total_pages(query[p].total, query[p].limit)])
    /\ pc' = [pc EXCEPT ![p] = "idle"]
    /\ query' = [query EXCEPT ![p] = NoQuery]
    /\ UNCHANGED <<tables, shared_state, update_logs, writer, now, args, old, view, hist>>

\* update_state: the SELECT of the current state, then
\* old_counter = current["counter"] if current else 0
\* old_message = current["message"] if current else ""
SingleUpdateSelect(p, counter, message) ==
    /\ pc[p] = "idle"
    /\ Len(update_logs) + Cardinality(InFlight) < MaxLogs
    /\ args' = [args EXCEPT ![p] = [counter |-> counter, message |-> message]]
    /\ old' = [old EXCEPT ![p] =
                  LET current == single_fetch_latest(shared_state)
                  IN [counter |-> IF current # None THEN current[1].counter ELSE 0,
                      message |-> IF current # None THEN current[1].message ELSE ""]]
    /\ pc' = [pc EXCEPT ![p] = "u_update"]
    /\ UNCHANGED <<tables, shared_state, update_logs, writer, now, view, ret, hist, query>>

\* update_state: new_counter = counter if counter is not None else old_counter
single_new_counter(p) ==
    IF args[p].counter # None THEN args[p].counter[1] ELSE old[p].counter

\* update_state: new_message = message if message is not None else old_message
single_new_message(p) ==
    IF args[p].message # None THEN args[p].message[1] ELSE old[p].message

\* update_state: UPDATE shared_state SET ... WHERE id = (SELECT id FROM
\* shared_state ORDER BY id DESC LIMIT 1)
SingleUpdateRow(p) ==
    /\ pc[p] = "u_update"
    /\ writer = 0
    /\ writer' = p
    /\ WriteTables(p,
           [state |-> [i \in 1..Len(shared_state) |->
                          IF i = Len(shared_state)
                          THEN StateRow(shared_state[i].id, single_new_counter(p),
                                        single_new_message(p), now)
                          ELSE shared_state[i]],
            logs |-> update_logs])
    /\ pc' = [pc EXCEPT ![p] = "u_insert"]
    /\ UNCHANGED <<tables, now, args, old, ret, hist, query>>

\* (Variant: the names joined without the space, ",".join(update_type).)
single_update_type_unspaced(counter, message) ==
    Join(",", (IF counter # None THEN <<"counter">> ELSE <<>>)
                  \o (IF message # None THEN <<"message">> ELSE <<>>))

\* update_state: update_type = []; the two appends; ", ".join(update_type)
single_update_type(counter, message) ==
    Join(", ", (IF counter # None THEN <<"counter">> ELSE <<>>)
                   \o (IF message # None THEN <<"message">> ELSE <<>>))

\* update_state: INSERT INTO update_logs (old_counter, new_counter,
\* old_message, new_message, update_type) VALUES (?, ?, ?, ?, ?)
SingleInsertLog(p) ==
    /\ pc[p] = "u_insert"
    /\ WriteTables(p,
           [state |-> view[p].state,
            logs |-> view[p].logs
                        \o <<LogRow(NextId(view[p].logs), now,
                                    old[p].counter, single_new_counter(p),
                                    old[p].message, single_new_message(p),
                                    single_update_type(args[p].counter, args[p].message))>>])
    /\ pc' = [pc EXCEPT ![p] = "u_commit"]
    /\ UNCHANGED <<tables, writer, now, args, old, ret, hist, query>>

\* update_state: conn.commit(); conn.close(); return {...}
SingleUpdateCommit(p) ==
    /\ pc[p] = "u_commit"
    /\ CommitTables(p)
    /\ hist' = Append(hist, args[p])
    /\ pc' = [pc EXCEPT ![p] = "idle"]
    /\ ret' = Returned("update_state",
                 [old_counter |-> old[p].counter, new_counter |-> single_new_counter(p),
                  old_message |-> old[p].message, new_message |-> single_new_message(p)])
    /\ args' = [args EXCEPT ![p] = NoArgs]
    /\ old' = [old EXCEPT ![p] = NoOld]
    /\ UNCHANGED <<tables, now, query>>

\* ------------------------------------------- calls made one after the other
\* A process starts, and a call is made, only while every other process is at
\* rest: before its start or between two calls.
AtRest(q) == pc[q] \in {"boot", "idle"}

OneAtATime(p) == \A q \in Procs : q = p \/ AtRest(q)

\* The page sizes get_logs is called with: one row a page, and the default.
PageSizes == {1, DefaultLimit}

\* The steps of the packaged application (src/app/database.py): any process
\* starts, which runs init_db, and the calls of the sequence are made by one
\* caller.
NextPackagedCalls ==
    \/ \E p \in Procs : OneAtATime(p) /\ InitCreateState(p)
    \/ \E p \in Procs : InitCreateLogs(p)
    \/ \E p \in Procs : InitCount(p)
    \/ \E p \in Procs : InitInsert(p)
    \/ \E p \in Procs : InitCommit(p)
    \/ OneAtATime(DirectCaller) /\ GetCurrentState(DirectCaller)
    \/ \E page \in 1..MaxPage : \E limit \in PageSizes :
           OneAtATime(DirectCaller) /\ GetLogsCount(DirectCaller, page, limit)
    \/ GetLogsSelect(DirectCaller)
    \/ \E r \in Requests :
           OneAtATime(DirectCaller) /\ UpdateSelect(DirectCaller, r.counter, r.message)
    \/ UpdateRow(DirectCaller)
    \/ InsertLog(DirectCaller)
    \/ UpdateCommit(DirectCaller)

\* The steps of the single-file application (src/app.py), in the same way.
NextSingleCalls ==
    \/ \E p \in Procs : OneAtATime(p) /\ SingleInitCreateState(p)
    \/ \E p \in Procs : SingleInitCreateLogs(p)
    \/ \E p \in Procs : SingleInitCount(p)
    \/ \E p \in Procs : SingleInitInsert(p)
    \/ \E p \in Procs : SingleInitCommit(p)
    \/ OneAtATime(DirectCaller) /\ SingleGetCurrentState(DirectCaller)
    \/ \E page \in 1..MaxPage : \E limit \in PageSizes :
           OneAtATime(DirectCaller) /\ SingleGetLogsCount(DirectCaller, page, limit)
    \/ SingleGetLogsSelect(DirectCaller)
    \/ \E r \in Requests :
           OneAtATime(DirectCaller) /\ SingleUpdateSelect(DirectCaller, r.counter, r.message)
    \/ SingleUpdateRow(DirectCaller)
    \/ SingleInsertLog(DirectCaller)
    \/ SingleUpdateCommit(DirectCaller)

\* Every behaviour of either application, from the same new database file
\* and under the same clock, is a behaviour of this specification: each step
\* is a statement of one of the two, or a tick of the clock.
NextEither ==
    \/ NextPackagedCalls
    \/ NextSingleCalls
    \/ Tick

SpecEither == Init /\ [][NextEither]_vars

\* ------------------------------------------------------------------ claims
\* The caller whose update_state commits and returns in this step.
Commits(p) == pc[p] = "u_commit" /\ pc'[p] = "idle"

\* The state the update that committed last left: the new values of the log
\* row with the highest id, the values of a new store when no update committed.
LastCommitted(logs) ==
    IF logs = <<>>
    THEN [counter |-> 0, message |-> ""]
    ELSE [counter |-> logs[Len(logs)].new_counter,
          message |-> logs[Len(logs)].new_message]

\* The requested fields laid over a state, written out field by field.
Merged(request, state) ==
    [counter |-> IF request.counter = None THEN state.counter ELSE request.counter[1],
     message |-> IF request.message = None THEN state.message ELSE request.message[1]]

\* C1: concurrent updates never lose an update: every update that commits
\* recorded as its old values, and merged its requested fields into, the state
\* left by the update that committed immediately before it.
C1_NoLostUpdate ==
    [][\A p \in Procs :
          Commits(p) =>
              /\ old[p] = LastCommitted(update_logs)
              /\ CurrentState(shared_state')
                     = Merged(args[p], LastCommitted(update_logs))]_vars

\* A witness of C1's case is the counterexample itself: two updates whose
\* SELECTs both ran before either committed.

\* C2: update_state is atomic under failure.  Only a commit() publishes
\* anything: a statement that fails, the exception leaving update_state and the
\* dropped connection's end leave the committed state rows and log rows as
\* they were; the exception reaches the caller; and a call that raised does
\* not run again (no retry), so a call commits at most once.
C2_AtomicUnderFailure ==
    [][/\ (shared_state' # shared_state \/ update_logs' # update_logs)
            => \E p \in Procs : pc[p] \in {"u_commit", "i_commit"} /\ pc'[p] = "idle"
       /\ \A p \in Procs :
            /\ (pc[p] \in {"u_update", "u_insert", "u_commit"} /\ pc'[p] = "u_raise")
                 => (shared_state' = shared_state /\ update_logs' = update_logs)
            /\ (pc[p] = "u_raise" /\ pc'[p] # pc[p])
                 => /\ pc'[p] = "idle"
                    /\ ret' = [op |-> "update_state", ok |-> FALSE, val |-> <<>>]
                    /\ hist' = hist
                    /\ shared_state' = shared_state /\ update_logs' = update_logs]_vars

\* The failure came between the UPDATE and the INSERT: the call is raising,
\* its transaction holds a state change and no log row, and the committed
\* state shows none of it.
C2_Witness ==
    \E p \in Procs :
        /\ pc[p] = "u_raise"
        /\ view[p] # NoView
        /\ Len(view[p].logs) = Len(update_logs)
        /\ CurrentState(view[p].state) # CurrentState(shared_state)

\* C3: in every committed state the number of log rows is the number of
\* committed updates, and when the log is not empty the current state is the
\* (new_counter, new_message) of the log row with the highest id.
C3_StatePairedWithLog ==
    /\ Len(update_logs) = Len(hist)
    /\ update_logs # <<>> => CurrentState(shared_state) = LastCommitted(update_logs)

\* C4: every successful update_state appends exactly one log row, an update
\* that changes nothing included: after N successful calls there are N rows.
C4_OneLogPerUpdate == Len(update_logs) = Len(hist)

\* A counter-only update that set the counter to the value it had is logged.
C4_Witness ==
    \E i \in 1..Len(update_logs) :
        /\ update_logs[i].update_type = "counter"
        /\ update_logs[i].old_counter = update_logs[i].new_counter

\* C5: update_state merges per field.  The state a call reads is the current
\* state; what it commits is, field by field, the requested value if present
\* and the value it read otherwise, in the state row and in its log row.
C5_PerFieldMerge ==
    [][\A p \in Procs :
          /\ (pc[p] = "idle" /\ pc'[p] = "u_update")
               => old'[p] = CurrentState(shared_state)
          /\ Commits(p)
               => /\ CurrentState(shared_state') = Merged(args[p], old[p])
                  /\ LastCommitted(update_logs') = Merged(args[p], old[p])]_vars

\* From {counter: 5, message: "hi"}, update_state(counter=9) left
\* {counter: 9, message: "hi"}.
C5_Witness ==
    /\ CurrentState(shared_state) = [counter |-> 9, message |-> "hi"]
    /\ update_logs # <<>>
    /\ update_logs[Len(update_logs)].old_counter = 5
    /\ update_logs[Len(update_logs)].old_message = "hi"
    /\ hist[Len(hist)] = [counter |-> Some(9), message |-> None]

\* C6: update_type names the fields present in the request, counter first,
\* whatever the state was and whether or not a value changed.
C6_UpdateTypeFromPresence ==
    \A i \in 1..Len(update_logs) :
        i <= Len(hist) =>
            update_logs[i].update_type =
                (IF hist[i].counter # None /\ hist[i].message # None
                   THEN "counter, message"
                 ELSE IF hist[i].counter # None THEN "counter"
                 ELSE IF hist[i].message # None THEN "message"
                 ELSE "")

\* An update with both fields that changed neither is labelled with both.
C6_Witness ==
    \E i \in 1..Len(update_logs) :
        /\ update_logs[i].update_type = "counter, message"
        /\ update_logs[i].old_counter = update_logs[i].new_counter
        /\ update_logs[i].old_message = update_logs[i].new_message

\* C7: a log row holds both fields before and after, and the field the
\* update did not name has the same old and new value.
C7_UntargetedFieldUnchanged ==
    \A i \in 1..Len(update_logs) :
        i <= Len(hist) =>
            /\ hist[i].counter = None
                 => update_logs[i].old_counter = update_logs[i].new_counter
            /\ hist[i].message = None
                 => update_logs[i].old_message = update_logs[i].new_message

\* A message-only update on a state whose counter is not the default.
C7_Witness ==
    \E i \in 1..Len(update_logs) :
        /\ update_logs[i].update_type = "message"
        /\ update_logs[i].old_message # update_logs[i].new_message
        /\ update_logs[i].old_counter = 5
        /\ update_logs[i].new_counter = 5

RECURSIVE LastSupplied(_, _, _)
\* The value of a field after the committed updates h: the one the last
\* update that supplied the field gave, the new store's value when none did.
LastSupplied(h, field, initial) ==
    IF h = <<>> THEN initial
    ELSE IF h[Len(h)][field] # None THEN h[Len(h)][field][1]
    ELSE LastSupplied(SubSeq(h, 1, Len(h) - 1), field, initial)

\* C8: the last update wins: get_current_state returns, for each field, the
\* value of the last committed update that supplied it.
C8_LastUpdateWins ==
    ret.op = "get_current_state" =>
        ret.val[1] = [counter |-> LastSupplied(hist, "counter", 0),
                      message |-> LastSupplied(hist, "message", "")]

\* C10: on a freshly initialized store (init_db has returned, no update has
\* committed) the state table holds a row, get_current_state returns
\* {counter: 0, message: ""} and the log is empty.
Initialized == \E p \in Procs : pc[p] \in {"idle", "u_update", "u_insert", "u_commit", "u_raise"}

C10_FreshStoreDefaults ==
    (Initialized /\ hist = <<>>) =>
        /\ shared_state # <<>>
        /\ CurrentState(shared_state) = [counter |-> 0, message |-> ""]
        /\ update_logs = <<>>
        /\ ret.op = "get_current_state"
             => ret.val = <<[counter |-> 0, message |-> ""]>>

\* get_current_state has returned on the fresh store.
C10_Witness ==
    /\ hist = <<>>
    /\ shared_state # <<>>
    /\ ret = Returned("get_current_state", [counter |-> 0, message |-> ""])

\* C9: init_db is idempotent.  With the calls made one after the other, the
\* state table never holds more than one row and holds one once a call has
\* returned, and a call made on a populated store changes no state row and no
\* log row, whatever updates were committed before it.
C9_InitIdempotent ==
    /\ [](Len(shared_state) <= 1 /\ (Initialized => Len(shared_state) = 1))
    /\ [][\A p \in Procs :
             (shared_state # <<>> /\ (pc[p] = "boot" \/ InInitDb(p)) /\ pc'[p] # pc[p])
                 => (shared_state' = shared_state /\ update_logs' = update_logs)]_vars

\* Both processes have run init_db, the second after an update was committed:
\* there is one state row and it holds what the update wrote.
C9_Witness ==
    /\ \A p \in Procs : pc[p] = "idle"
    /\ ret = Returned("init_db", <<>>)
    /\ hist # <<>>
    /\ Len(shared_state) = 1
    /\ CurrentState(shared_state) = [counter |-> 5, message |-> "hi"]

\* The ids of the rows of a table, in table order.
Ids(rows) == [i \in 1..Len(rows) |-> rows[i].id]

\* C11: once init_db has returned the state table holds at least one row; no
\* step removes a state row or changes a row's id; and only init_db's commit
\* adds one: the steps of update_state and of get_current_state leave the
\* number of state rows as it was, an update overwriting the row with the
\* highest id in place.
C11_StateRowsKept ==
    /\ [](Initialized => Len(shared_state) >= 1)
    /\ [][\/ shared_state' = shared_state
          \/ /\ Len(shared_state') >= Len(shared_state)
             /\ SubSeq(Ids(shared_state'), 1, Len(shared_state)) = Ids(shared_state)
             /\ (\A p \in Procs : ~(pc[p] = "i_commit" /\ pc'[p] = "idle"))
                  => Ids(shared_state') = Ids(shared_state)
             /\ \A p \in Procs :
                  (Commits(p) /\ shared_state # <<>>)
                      => /\ Len(shared_state') = Len(shared_state)
                         /\ \A i \in 1..(Len(shared_state) - 1) :
                                shared_state'[i] = shared_state[i]]_vars

\* Two updates were committed and the state was read: the table still holds
\* the one row init_db inserted, with the values of the updates.
C11_Witness ==
    /\ Len(hist) = 2
    /\ Len(shared_state) = 1
    /\ shared_state[1].id = 1
    /\ ret = Returned("get_current_state", [counter |-> 9, message |-> "x"])

\* C12: the log is append-only: whatever step is taken (of update_state, of
\* get_current_state or of init_db) the committed log rows stay, in their
\* places and with every field as it was, and rows are only added after them.
C12_LogAppendOnly ==
    [][/\ Len(update_logs') >= Len(update_logs)
       /\ SubSeq(update_logs', 1, Len(update_logs)) = update_logs]_vars

\* A second row was appended after the first, and a process then ran init_db
\* on the store: the first row is still what its update wrote.
C12_Witness ==
    /\ Len(update_logs) = 2
    /\ update_logs[1].id = 1
    /\ update_logs[1].update_type = "counter, message"
    /\ update_logs[2].update_type = "message"
    /\ ret = Returned("init_db", <<>>)

Min(a, b) == IF a < b THEN a ELSE b

\* The rows of a table whose timestamp is later than t, and not earlier than t.
Later(rows, t) == {i \in 1..Len(rows) : rows[i].timestamp > t}

NotEarlier(rows, t) == {i \in 1..Len(rows) : rows[i].timestamp >= t}

\* C13: get_logs returns the entries newest first: the page holds, in this
\* order, the entries at the places offset+1, offset+2, ... of the log read
\* from the entry created last to the entry created first (so an entry
\* created later comes earlier on the page or on an earlier page), and the
\* timestamps on the page do not increase.
C13_NewestFirst ==
    ret.op = "get_logs" =>
        LET r == ret.val[1]
            first == (r.page - 1) * r.limit
        IN /\ \A i \in 1..Len(r.logs) :
                 /\ first + i <= Len(update_logs)
                 /\ r.logs[i] = update_logs[Len(update_logs) + 1 - (first + i)]
           /\ \A i \in 1..(Len(r.logs) - 1) :
                 r.logs[i].timestamp >= r.logs[i + 1].timestamp

\* C14: with no update running, get_logs(page, limit) returns the window of
\* the log ordered by timestamp, latest first, that starts after the first
\* (page - 1) * limit entries: exactly min(limit, max(0, total - offset))
\* entries, each a row of the log and none twice, the i-th of them having at
\* most offset + i - 1 rows later than it and at least offset + i rows not
\* earlier; total is the number of rows; a page after the last one is empty.
C14_PageWindow ==
    ret.op = "get_logs" =>
        LET r == ret.val[1]
            offset == (r.page - 1) * r.limit
            rest == IF r.total - offset > 0 THEN r.total - offset ELSE 0
        IN /\ r.total = Len(update_logs)
           /\ Len(r.logs) = Min(r.limit, rest)
           /\ Len(r.logs) <= r.limit
           /\ r.page * r.limit >= r.total + r.limit => r.logs = <<>>
           /\ \A i \in 1..Len(r.logs) :
                 /\ \E k \in 1..Len(update_logs) : update_logs[k] = r.logs[i]
                 /\ \A j \in 1..Len(r.logs) : r.logs[j].id = r.logs[i].id => j = i
                 /\ Cardinality(Later(update_logs, r.logs[i].timestamp)) <= offset + i - 1
                 /\ Cardinality(NotEarlier(update_logs, r.logs[i].timestamp)) >= offset + i
           /\ \A i \in 1..(Len(r.logs) - 1) :
                 r.logs[i].timestamp >= r.logs[i + 1].timestamp

\* With 15 entries and limit 10, page 2 holds the 5 entries left.
C14_Witness ==
    /\ ret.op = "get_logs"
    /\ Len(update_logs) = 15
    /\ ret.val[1].page = 2
    /\ ret.val[1].limit = 10
    /\ Len(ret.val[1].logs) = 5

\* C15: get_logs reports total_pages = ceil(total / limit) when the log has
\* entries and 1 when it has none, whatever page was asked for; on an empty
\* log it returns total 0, total_pages 1 and no entries.
C15_TotalPages ==
    ret.op = "get_logs" =>
        LET r == ret.val[1]
        IN /\ r.total = Len(update_logs)
           /\ r.total_pages >= 1
           /\ r.total > 0 => /\ r.total_pages * r.limit >= r.total
                             /\ (r.total_pages - 1) * r.limit < r.total
           /\ r.total = 0 => (r.total_pages = 1 /\ r.logs = <<>>)

\* Page 3 of 15 entries by 10: empty, and total_pages is still 2.
C15_Witness ==
    /\ ret.op = "get_logs"
    /\ ret.val[1].total = 15
    /\ ret.val[1].limit = 10
    /\ ret.val[1].page = 3
    /\ ret.val[1].total_pages = 2
    /\ ret.val[1].logs = <<>>

RECURSIVE PagesFrom(_, _, _)
\* What the pages page..total_pages of one limit show, one page after the
\* other, of a log already put in the order of the SELECT.
PagesFrom(ordered, limit, page) ==
    IF page > total_pages(Len(ordered), limit) THEN <<>>
    ELSE LimitOffset(ordered, limit, Offset(page, limit))
             \o PagesFrom(ordered, limit, page + 1)

\* C16: the pages partition the log.  On an unchanged store, two get_logs
\* results for the same limit and different pages share no entry id; every
\* entry is shown exactly once on the pages 1..total_pages (they show as many
\* entries as the log has, and every id); and what a call returns depends on
\* the table, the page and the limit only.
C16_PagesPartition ==
    /\ [](LET ordered == OrderByTimestampDesc(update_logs)
          IN \A limit \in Limits :
              LET shown == PagesFrom(ordered, limit, 1)
              IN /\ Len(shown) = Len(update_logs)
                 /\ {shown[j].id : j \in 1..Len(shown)}
                        = {update_logs[i].id : i \in 1..Len(update_logs)})
    /\ [](ret.op = "get_logs" =>
              ret.val[1].logs = SelectLogs(update_logs, ret.val[1].limit,
                                           Offset(ret.val[1].page, ret.val[1].limit)))
    /\ [][(/\ ret.op = "get_logs" /\ ret'.op = "get_logs"
           /\ ret.val[1].limit = ret'.val[1].limit
           /\ ret.val[1].page # ret'.val[1].page)
              => \A i \in 1..Len(ret.val[1].logs) : \A j \in 1..Len(ret'.val[1].logs) :
                     ret.val[1].logs[i].id # ret'.val[1].logs[j].id]_vars

\* 15 entries of which the 5th to the 11th were written in the same second;
\* page 2 by 5 was returned while the next call, for page 3, has counted.
C16_Witness ==
    /\ Len(update_logs) = 15
    /\ update_logs[5].timestamp = update_logs[11].timestamp
    /\ update_logs[4].timestamp # update_logs[5].timestamp
    /\ ret.op = "get_logs"
    /\ ret.val[1].page = 2
    /\ ret.val[1].limit = 5
    /\ Len(ret.val[1].logs) = 5
    /\ \E p \in Procs : pc[p] = "l_select" /\ query[p].page = 3 /\ query[p].limit = 5

\* C17: a POST /update without the X-API-Key header, or with a header that is
\* not exactly the configured key (the key padded with spaces included), is
\* rejected before update_state is called: the step leaves every caller where
\* it was and every table, transaction and lock as it was, and only the
\* response, a failure, is new.  A request with the exact key and a field
\* enters update_state with its fields, whatever was rejected before it.
C17_BadKeyRejected ==
    [][\A p \in Procs :
          (pc[p] = "idle" /\ (ret' # ret \/ pc'[p] # pc[p])) =>
              \A body \in Bodies :
                  /\ \A key \in Keys :
                       (key # <<"your-secret-api-key-12345">> /\ UpdateEndpoint(p, key, body))
                           => /\ ret'.ok = FALSE
                              /\ ret'.op = "POST /update"
                              /\ UNCHANGED <<tables, shared_state, update_logs, writer, now,
                                             pc, args, old, view, hist, query>>
                  /\ (/\ body # NoArgs
                      /\ UpdateEndpoint(p, <<"your-secret-api-key-12345">>, body))
                         => /\ pc'[p] = "u_update"
                            /\ args'[p] = body]_vars

\* The first process's request was rejected for its key (the second process
\* has not started); its next request, with the key, has run the UPDATE and
\* the INSERT and is about to commit {counter: 5, message: "hi"}.
C17_Witness ==
    /\ pc[1] = "u_commit"
    /\ pc[2] = "boot"
    /\ hist = <<>>
    /\ ret.op = "POST /update"
    /\ ret.val[1].status = 401
    /\ CurrentState(view[1].state) = [counter |-> 5, message |-> "hi"]
    /\ Len(view[1].logs) = 1

\* C18: a POST /update whose body has neither counter nor message is rejected
\* whatever its key: update_state is not called (no caller moves), no log row
\* is written and the state rows stay as they were; the response is a client
\* error.
C18_EmptyUpdateRejected ==
    [][\A p \in Procs :
          (pc[p] = "idle" /\ (ret' # ret \/ pc'[p] # pc[p])) =>
              \A key \in Keys :
                  UpdateEndpoint(p, key, [counter |-> <<>>, message |-> <<>>])
                      => /\ ret'.ok = FALSE
                         /\ ret'.val[1].status \in {401, 422}
                         /\ pc' = pc
                         /\ args' = args
                         /\ update_logs' = update_logs
                         /\ shared_state' = shared_state
                         /\ view' = view
                         /\ hist' = hist]_vars

\* After a committed update, a request with the key and an empty body was
\* rejected by the validator; the state and the log are those of the update.
C18_Witness ==
    /\ ret.op = "POST /update"
    /\ ret.val[1] = [status |-> 422,
                     detail |-> "At least one of counter or message must be provided"]
    /\ Len(hist) = 1
    /\ Len(update_logs) = 1
    /\ CurrentState(shared_state) = [counter |-> 5, message |-> "hi"]
    /\ \A p \in Procs : pc[p] = "idle"

\* C19: get_current_state returns (it does not raise) on any state table: the
\* defaults {counter: 0, message: ""} when the table has no row, otherwise
\* the counter and message of the row with the highest id.
C19_ReadNeverFailsOnEmpty ==
    ret.op = "get_current_state" =>
        /\ ret.ok
        /\ shared_state = <<>> => ret.val = <<[counter |-> 0, message |-> ""]>>
        /\ shared_state # <<>> =>
               \E i \in 1..Len(shared_state) :
                   /\ \A j \in 1..Len(shared_state) : shared_state[j].id <= shared_state[i].id
                   /\ ret.val = <<[counter |-> shared_state[i].counter,
                                   message |-> shared_state[i].message]>>

\* get_current_state has returned the defaults on a state table without rows.
C19_Witness ==
    /\ "shared_state" \in tables
    /\ shared_state = <<>>
    /\ ret.op = "get_current_state"
    /\ ret.ok
    /\ ret.val = <<[counter |-> 0, message |-> ""]>>

\* C20: a read that runs while updates run sees one committed state of the
\* store.  The total and the logs of one get_logs call fit together: on page
\* 1 the call returns min(limit, total) entries; and get_current_state returns
\* a (counter, message) pair that some commit left: the values of a new store
\* or the new values of one log row.
C20_ReadsSeeOneSnapshot ==
    /\ (ret.op = "get_logs" /\ ret.val[1].page = 1)
           => Len(ret.val[1].logs) = Min(ret.val[1].limit, ret.val[1].total)
    /\ ret.op = "get_current_state"
           => \/ ret.val[1] = [counter |-> 0, message |-> ""]
              \/ \E i \in 1..Len(update_logs) :
                     ret.val[1] = [counter |-> update_logs[i].new_counter,
                                   message |-> update_logs[i].new_message]

\* C21: readers never block a writer for ever: under fair scheduling of the
\* update's statements, an update_state call that has started commits (the
\* list of committed calls grows by it), however many get_current_state and
\* get_logs calls run meanwhile.
C21_WriterNotStarved ==
    \A p \in Procs : \A n \in 0..MaxLogs :
        (pc[p] \in {"u_update", "u_insert", "u_commit"} /\ Len(hist) = n)
            ~> (Len(hist) > n)

\* A caller is about to run its UPDATE while the other caller is between the
\* two SELECTs of get_logs and a read has just returned.
C21_Witness ==
    /\ pc[1] = "u_update"
    /\ pc[2] = "l_select"
    /\ ret.op = "get_current_state"

\* C22: a GET /logs with page < 1, limit < 1 or limit > 100 is answered with
\* an error and get_logs is not called (no caller moves); get_logs is only
\* ever entered with page >= 1 and 1 <= limit <= 100; an omitted page is 1,
\* an omitted limit is 10; and the result carries the page and the limit
\* get_logs was called with.
C22_QueryValidated ==
    [][\A p \in Procs :
          /\ (pc[p] = "idle" /\ pc'[p] = "l_select")
               => /\ query'[p].page >= 1
                  /\ query'[p].limit >= 1
                  /\ query'[p].limit <= 100
          /\ (pc[p] = "l_select" /\ pc'[p] = "idle")
               => /\ ret'.op = "get_logs"
                  /\ ret'.val[1].page = query[p].page
                  /\ ret'.val[1].limit = query[p].limit
          /\ (pc[p] = "idle" /\ (ret' # ret \/ pc'[p] # pc[p])) =>
               \A page \in PageParams : \A limit \in LimitParams :
                   LogsEndpoint(p, page, limit) =>
                       IF \/ (page # <<>> /\ page[1] < 1)
                          \/ (limit # <<>> /\ (limit[1] < 1 \/ limit[1] > 100))
                       THEN /\ ret'.ok = FALSE
                            /\ pc' = pc
                            /\ query' = query
                            /\ update_logs' = update_logs
                       ELSE /\ pc'[p] = "l_select"
                            /\ query'[p].page = (IF page = <<>> THEN 1 ELSE page[1])
                            /\ query'[p].limit = (IF limit = <<>> THEN 10 ELSE limit[1])]_vars

\* A request out of bounds was rejected; the next one, without a limit, has
\* entered get_logs with page 2 and limit 10.
C22_Witness ==
    /\ ret.op = "GET /logs"
    /\ ~ret.ok
    /\ pc[1] = "l_select"
    /\ query[1].page = 2
    /\ query[1].limit = 10

\* C23: the log is an unbroken chain under any interleaving of updates: in id
\* order the first row's old values are (0, ""), the state of the new store,
\* and every row's old values are the new values of the row before it.
C23_LogChain ==
    /\ update_logs # <<>>
         => (update_logs[1].old_counter = 0 /\ update_logs[1].old_message = "")
    /\ \A i \in 1..(Len(update_logs) - 1) :
         /\ update_logs[i + 1].old_counter = update_logs[i].new_counter
         /\ update_logs[i + 1].old_message = update_logs[i].new_message

\* C24: a field is present when it is not None, whatever its value: a
\* requested counter (0 and negative numbers included) and a requested
\* message ("" included) are what the call's log row records as new values,
\* what the state holds when the call commits, and are named in update_type.
C24_PresenceNotTruth ==
    [][\A p \in Procs :
          Commits(p) =>
              LET row == update_logs'[Len(update_logs')]
              IN /\ args[p].counter # <<>> =>
                       /\ row.new_counter = args[p].counter[1]
                       /\ row.update_type \in {"counter", "counter, message"}
                       /\ shared_state # <<>> =>
                              shared_state'[Len(shared_state')].counter = args[p].counter[1]
                 /\ args[p].message # <<>> =>
                       /\ row.new_message = args[p].message[1]
                       /\ row.update_type \in {"message", "counter, message"}
                       /\ shared_state # <<>> =>
                              shared_state'[Len(shared_state')].message = args[p].message[1]]_vars

\* From {counter: 5, message: "hi"} the update {counter: 0, message: ""} has
\* reset the state to (0, ""), with update_type "counter, message".
C24_Witness ==
    /\ Len(update_logs) = 2
    /\ update_logs[2].old_counter = 5
    /\ update_logs[2].old_message = "hi"
    /\ update_logs[2].new_counter = 0
    /\ update_logs[2].new_message = ""
    /\ update_logs[2].update_type = "counter, message"
    /\ shared_state # <<>>
    /\ CurrentState(shared_state) = [counter |-> 0, message |-> ""]

\* C25: init_db is safe under concurrency: when the init_db calls of the
\* processes interleave on an empty store, the store has exactly one state
\* row once all of them have ended, and never more than one.
C25_InitRaceOneRow ==
    /\ Len(shared_state) <= 1
    /\ (\A p \in Procs : pc[p] # "boot" /\ ~InInitDb(p)) => Len(shared_state) = 1

\* C26: what a successful update_state returns is what it committed, under
\* any interleaving: the call appends one log row, the four returned values
\* are that row's old and new values, and the returned new values are the
\* current state in the state the commit leaves.
C26_ReturnedIsCommitted ==
    [][\A p \in Procs :
          Commits(p) =>
              /\ ret'.op = "update_state"
              /\ ret'.ok
              /\ Len(update_logs') = Len(update_logs) + 1
              /\ LET row == update_logs'[Len(update_logs')]
                     v == ret'.val[1]
                 IN /\ v.old_counter = row.old_counter
                    /\ v.new_counter = row.new_counter
                    /\ v.old_message = row.old_message
                    /\ v.new_message = row.new_message
                    /\ CurrentState(shared_state')
                           = [counter |-> v.new_counter, message |-> v.new_message]]_vars

\* The call that just returned had read its old values before another update
\* committed counter 9: it returned, logged and left as the state
\* {counter: 0, message: "x"}.
C26_Witness ==
    /\ Len(update_logs) = 2
    /\ update_logs[1].new_counter = 9
    /\ ret = Returned("update_state",
                 [old_counter |-> 0, new_counter |-> 0,
                  old_message |-> "", new_message |-> "x"])
    /\ update_logs[2].old_counter = 0
    /\ update_logs[2].new_message = "x"
    /\ CurrentState(shared_state) = [counter |-> 0, message |-> "x"]

\* C27: update_state called with neither field (past the boundary) returns
\* normally: the state rows keep their counter and message, and one log row
\* is appended whose old and new values are equal and whose update_type is
\* the empty string.
C27_NoFieldUpdate ==
    [][\A p \in Procs :
          (Commits(p) /\ args[p] = [counter |-> <<>>, message |-> <<>>]) =>
              /\ ret'.op = "update_state"
              /\ ret'.ok
              /\ Len(shared_state') = Len(shared_state)
              /\ \A i \in 1..Len(shared_state) :
                     /\ shared_state'[i].counter = shared_state[i].counter
                     /\ shared_state'[i].message = shared_state[i].message
              /\ Len(update_logs') = Len(update_logs) + 1
              /\ SubSeq(update_logs', 1, Len(update_logs)) = update_logs
              /\ LET row == update_logs'[Len(update_logs')]
                 IN /\ row.old_counter = row.new_counter
                    /\ row.old_message = row.new_message
                    /\ row.update_type = ""]_vars

\* After update_state(counter=5, message="hi"), update_state() has returned:
\* the state is still {5, "hi"} and the second log row has no update_type.
C27_Witness ==
    /\ Len(update_logs) = 2
    /\ update_logs[2].update_type = ""
    /\ update_logs[2].old_counter = 5
    /\ update_logs[2].new_counter = 5
    /\ update_logs[2].new_message = "hi"
    /\ shared_state # <<>>
    /\ CurrentState(shared_state) = [counter |-> 5, message |-> "hi"]
    /\ ret.op = "update_state"
    /\ ret.ok

\* C28: the reads have no effect on the store: a get_current_state call and
\* each of the two statements of a get_logs call leave every state row and
\* every log row, the tables, the open transactions and the write lock as
\* they were, whatever else is running.
C28_ReadsChangeNothing ==
    [][\A p \in Procs :
          (\/ GetCurrentState(p)
           \/ (pc[p] = "idle" /\ pc'[p] = "l_select")
           \/ (pc[p] = "l_select" /\ pc'[p] = "idle"))
              => /\ shared_state' = shared_state
                 /\ update_logs' = update_logs
                 /\ tables' = tables
                 /\ view' = view
                 /\ writer' = writer
                 /\ hist' = hist]_vars

\* get_logs returned a committed log row while the other caller's update,
\* its UPDATE and INSERT done, was waiting to commit a later second.
C28_Witness ==
    /\ ret.op = "get_logs"
    /\ Len(ret.val[1].logs) = 1
    /\ Len(update_logs) = 1
    /\ \E p \in Procs :
           /\ pc[p] = "u_commit"
           /\ writer = p
           /\ Len(view[p].logs) = 2
    /\ now = 1
    /\ shared_state[Len(shared_state)].updated_at = 0

C30_EmptyTableUpdate ==
    /\ [][\A p \in Procs :
             (Commits(p) /\ shared_state = <<>>) =>
                 /\ old[p] = [counter |-> 0, message |-> ""]
                 /\ ret' = Returned("update_state",
                        [old_counter |-> 0,
                         new_counter |-> Coalesce(args[p].counter, 0),
                         old_message |-> "",
                         new_message |-> Coalesce(args[p].message, "")])
                 /\ Len(update_logs') = Len(update_logs) + 1
                 /\ SubSeq(update_logs', 1, Len(update_logs)) = update_logs
                 /\ LET row == update_logs'[Len(update_logs')]
                    IN /\ row.old_counter = 0
                       /\ row.old_message = ""
                       /\ row.new_counter = ret'.val[1].new_counter
                       /\ row.new_message = ret'.val[1].new_message
                 /\ shared_state' = <<>>
                 /\ CurrentState(shared_state') = [counter |-> 0, message |-> ""]]_vars
    /\ []((shared_state = <<>> /\ ret.op = "get_current_state") =>
              ret = Returned("get_current_state", [counter |-> 0, message |-> ""]))

\* On the empty table update_state(counter=5, message="hi") has committed its
\* log row, and the get_current_state after it has returned (0, "").
C30_Witness ==
    /\ shared_state = <<>>
    /\ Len(update_logs) = 1
    /\ update_logs[1].old_counter = 0
    /\ update_logs[1].new_counter = 5
    /\ update_logs[1].new_message = "hi"
    /\ ret = Returned("get_current_state", [counter |-> 0, message |-> ""])

\* C31: the single-file application (src/app.py) and the packaged one
\* (src/app/database.py) are equivalent on init_db, update_state,
\* get_current_state and get_logs: with the calls made one after the other,
\* from the same store and with the same arguments, every statement either
\* application executes is a step of the other as well, leaving the same
\* state rows and log rows (ids, old and new values, update_type) and the
\* same return value.
C31_SameSteps ==
    /\ [][NextPackagedCalls \/ Tick]_vars
    /\ [][NextSingleCalls \/ Tick]_vars

\* init_db, update_state(counter=5, message="hi"), a second later
\* update_state(message="x"), then get_logs(page=1, limit=1) have run: the
\* state is (5, "x") and the one entry returned is the second log row.
C31_Witness ==
    /\ \A p \in Procs : pc[p] \in {"boot", "idle"}
    /\ single_get_current_state(shared_state) = [counter |-> 5, message |-> "x"]
    /\ CurrentState(shared_state) = [counter |-> 5, message |-> "x"]
    /\ Len(update_logs) = 2
    /\ update_logs[1].update_type = "counter, message"
    /\ update_logs[1].timestamp = 0
    /\ update_logs[2].timestamp = 1
    /\ ret.op = "get_logs"
    /\ ret.val[1].total_pages = 2
    /\ Len(ret.val[1].logs) = 1
    /\ ret.val[1].logs[1].id = 2
    /\ ret.val[1].logs[1].update_type = "message"
    /\ ret.val[1].logs[1].old_message = "hi"
    /\ ret.val[1].logs[1].new_counter = 5

====
